---- MODULE Spec2Model ----
(***************************************************************************)
(* Model of the ACWI-vs-SPY dollar-cost-averaging analyser:                *)
(*   utils/xirr_calculator.py      XIRRCalculator                          *)
(*   utils/performance_analyzer.py PerformanceAnalyzer                     *)
(*   acwi_spy.py                   the "Run Analysis" block                *)
(*                                                                         *)
(* Calendar dates are day numbers (integers); day 0 is a Monday, so the    *)
(* weekday of day d is d % 7 (Monday = 0 ... Thursday = 3), as             *)
(* datetime.weekday() numbers them.  Python floats are modelled as exact   *)
(* rationals <<numerator, denominator>> in lowest terms, denominator > 0.  *)
(***************************************************************************)
EXTENDS Integers, Sequences, FiniteSets, TLC

VARIABLES
  \* ---- a direct call of XIRRCalculator.calculate_xirr
  cash_flows,        \* argument: list of signed amounts (rationals)
  dates,             \* argument: list of dates
  guess,             \* argument: initial guess, as a rational
  xirr_out,          \* outcome of the call, NoCall before it
  \* ---- a direct call of PerformanceAnalyzer._get_price_for_date
  price_data,        \* argument: the price series (rows of the DataFrame)
  target_date,       \* argument
  price_out,         \* returned price, NoCall before the call
  \* ---- a direct call of PerformanceAnalyzer.generate_thursdays
  gen_start,         \* argument start_date
  gen_end,           \* argument end_date
  thursdays,         \* returned list, NoCall before the call
  \* ---- a direct call of PerformanceAnalyzer.compare_strategies
  strategy1_results, \* argument
  strategy2_results, \* argument
  compare_out,       \* outcome of the call, NoCall before it
  \* ---- PerformanceAnalyzer.analyze_investment_strategy, one frame per symbol
  stock_data,        \* symbol -> price series (acwi_data, spy_data)
  investment_dates,  \* the list of investment dates, shared by both analyses
  investment_amount, \* amount invested on each date
  an,                \* symbol -> frame of the call (locals and position)
  \* ---- the "Run Analysis" block of acwi_spy.py
  pc,                \* position in the block
  start_date,        \* sidebar input
  end_date,          \* sidebar input
  market,            \* symbol -> what the data provider answers in this run
  events,            \* what the run has done so far, in order
  analysis_complete, \* st.session_state.analysis_complete
  analysis_data      \* st.session_state.analysis_data

xirrVars    == <<cash_flows, dates, guess, xirr_out>>
priceVars   == <<price_data, target_date, price_out>>
genVars     == <<gen_start, gen_end, thursdays>>
compareVars == <<strategy1_results, strategy2_results, compare_out>>
analyzeVars == <<stock_data, investment_dates, investment_amount, an>>
mainVars    == <<pc, start_date, end_date, market, events,
                 analysis_complete, analysis_data>>
vars == <<xirrVars, priceVars, genVars, compareVars, analyzeVars, mainVars>>

Symbols == {"ACWI", "SPY"}

\* Python's None, where a string stands (an exception name, a position)
None     == "None"
\* the outcome of a call that has not been made
NoCall   == [status |-> "nocall"]
\* None where a rate, a price, a result dict stands
NoRate   == <<>>
NoPrice  == [none |-> TRUE, value |-> 0]
NoResult == [none |-> TRUE]
Price(p) == [none |-> FALSE, value |-> p]

----------------------------------------------------------------------------
(* Bounds of the model *)

MaxFlows   == 3    \* longest cash-flow / date list of a direct XIRR call
MaxYears   == 2    \* XIRR dates lie on multiples of half a year up to this
MaxDay     == 4    \* price-series and schedule dates lie in 0 .. MaxDay
MaxRows    == 2    \* longest price series of a direct call
MaxDates   == 4    \* longest investment schedule of a direct call
MaxGenDay  == 17   \* generate_thursdays is called with dates in 0 .. MaxGenDay
MaxMainDay == 10   \* the sidebar dates of a run lie in 0 .. MaxMainDay
MaxBothDay == 1    \* dates of two analyses run side by side lie in 0 .. this
MaxBothLen == 2    \* longest series and schedule of two analyses side by side
MaxOrderLen == 3   \* longest list of (cash flow, date) pairs permuted together

----------------------------------------------------------------------------
(* Exact rational arithmetic standing for Python's float arithmetic *)

Abs(x) == IF x < 0 THEN -x ELSE x

RECURSIVE GCD(_, _)
GCD(a, b) == IF b = 0 THEN a ELSE GCD(b, a % b)

Frac(n, d) ==
  LET g == GCD(Abs(n), Abs(d))
      s == IF d < 0 THEN -1 ELSE 1
  IN  <<(s * n) \div g, (s * d) \div g>>

FInt(n)    == <<n, 1>>
\* sums are formed over the least common denominator, which keeps the
\* intermediate products small
FAdd(a, b) ==
  LET g == GCD(a[2], b[2])
  IN  Frac(a[1] * (b[2] \div g) + b[1] * (a[2] \div g), (a[2] \div g) * b[2])
FSub(a, b) ==
  LET g == GCD(a[2], b[2])
  IN  Frac(a[1] * (b[2] \div g) - b[1] * (a[2] \div g), (a[2] \div g) * b[2])
FMul(a, b) == Frac(a[1] * b[1], a[2] * b[2])
FDiv(a, b) == Frac(a[1] * b[2], a[2] * b[1])
FLt(a, b)  == a[1] * b[2] < b[1] * a[2]
FZero      == <<0, 1>>
FAbs(a)    == <<Abs(a[1]), a[2]>>

\* sum(...) over a list of rationals; Python's sum starts from the int 0
RECURSIVE SumSeq(_)
SumSeq(s) == IF s = <<>> THEN FZero ELSE FAdd(Head(s), SumSeq(Tail(s)))

SeqMin(s) == CHOOSE x \in {s[i] : i \in DOMAIN s} :
               \A y \in {s[i] : i \in DOMAIN s} : x <= y
SeqMax(s) == CHOOSE x \in {s[i] : i \in DOMAIN s} :
               \A y \in {s[i] : i \in DOMAIN s} : x >= y

Min2(a, b) == IF a < b THEN a ELSE b

----------------------------------------------------------------------------
(* XIRRCalculator.calculate_xirr *)

DayOffsets_FromFirst(dts) == [i \in DOMAIN dts |-> dts[i] - dts[1]]

\* days = [(date - first_date).days for date in dates]          (l.28-29)
DayOffsets(dts) == [i \in DOMAIN dts |-> dts[i] - SeqMin(dts)]

\* a ** k for a whole number k
RECURSIVE FPow(_, _)
FPow(a, k) == IF k = 0 THEN FInt(1) ELSE FMul(a, FPow(a, k - 1))

\* npv(rate) = sum(cf / (1 + rate) ** (day / 365.0) ...), summed in list
\* order; computed exactly here for offsets that are whole years  (l.32-33)
RECURSIVE NpvFrom(_, _, _, _)
NpvFrom(cfs, days, rate, i) ==
  IF i > Min2(Len(cfs), Len(days)) THEN FZero
  ELSE FAdd(FDiv(cfs[i], FPow(FAdd(FInt(1), rate), days[i] \div 365)),
            NpvFrom(cfs, days, rate, i + 1))

Npv(cfs, days, rate) == NpvFrom(cfs, days, rate, 1)

\* the (cash flow, day) pairs npv sums over: zip() stops at the shorter list
NpvPairs(cfs, dts) == 1 .. Min2(Len(cfs), Len(dts))

\* Rates the root finder may settle on.  scipy's secant iteration accepts an
\* iterate as soon as two successive iterates are close, so the rate it
\* returns is not determined by the source; it is a free choice here.
Rates == {<<-1, 2>>, FZero, <<1, 10>>, <<1, 5>>}

\* Exceptions the except clause of calculate_xirr absorbs           (l.39)
Absorbed == {"ValueError", "RuntimeError", "OverflowError"}

\* What the try block (l.26-37) can end with: a converged rate or an exception.
\*  - min(dates) raises ValueError on an empty list;
\*  - with no (cash flow, day) pair npv is identically 0: newton stops at once,
\*    returning the midpoint of its first two iterates (a rate next to guess,
\*    modelled as guess) or, in releases that treat this as a failure,
\*    raising RuntimeError;
\*  - newton first evaluates npv(guess); at guess = -1 the discount factor of a
\*    pair with day > 0 is 0.0 ** x = 0.0 and cf / 0.0 raises ZeroDivisionError
\*    in Python arithmetic, or yields inf under numpy arithmetic, after which
\*    the iteration cannot converge and newton raises RuntimeError;
\*  - otherwise newton converges, or raises RuntimeError after maxiter = 1000
\*    iterations, or a power overflows (OverflowError).
TryBlock(cfs, dts, g) ==
  IF dts = <<>>
  THEN {[exc |-> "ValueError", rate |-> NoRate]}
  ELSE IF NpvPairs(cfs, dts) = {}
  THEN {[exc |-> None, rate |-> g], [exc |-> "RuntimeError", rate |-> NoRate]}
  ELSE IF g = <<-1, 1>> /\ \E i \in NpvPairs(cfs, dts) : DayOffsets(dts)[i] > 0
  THEN {[exc |-> e, rate |-> NoRate] : e \in {"ZeroDivisionError", "RuntimeError"}}
  ELSE {[exc |-> None, rate |-> r] : r \in Rates}
       \cup {[exc |-> e, rate |-> NoRate] : e \in {"RuntimeError", "OverflowError"}}

\* total_invested = sum(cf for cf in cash_flows if cf < 0)          (l.41)
TotalInvested(cfs) == SumSeq(SelectSeq(cfs, LAMBDA cf : FLt(cf, FZero)))
\* total_return = sum(cf for cf in cash_flows if cf > 0)            (l.42)
TotalReturn(cfs)   == SumSeq(SelectSeq(cfs, LAMBDA cf : FLt(FZero, cf)))

Fallback_Compounded(cfs, dts) ==
  LET total_invested == TotalInvested(cfs)
      total_return   == TotalReturn(cfs)
  IN  IF total_invested = FZero
      THEN [status |-> "return", rate |-> FZero, exc |-> None]
      ELSE IF dts = <<>>
      THEN [status |-> "raise", rate |-> NoRate, exc |-> "ValueError"]
      ELSE IF SeqMax(dts) = SeqMin(dts)
      THEN [status |-> "return", rate |-> FZero, exc |-> None]
      ELSE [status |-> "return",
            rate   |-> FSub(FDiv(total_return, FAbs(total_invested)), FInt(1)),
            exc    |-> None]

\* the except block (l.40-53); it can itself raise: max(dates) on an empty list
Fallback(cfs, dts) ==
  LET total_invested == TotalInvested(cfs)
      total_return   == TotalReturn(cfs)
  IN  IF total_invested = FZero
      THEN [status |-> "return", rate |-> FZero, exc |-> None]
      ELSE IF dts = <<>>
      THEN [status |-> "raise", rate |-> NoRate, exc |-> "ValueError"]
      ELSE LET years == Frac(SeqMax(dts) - SeqMin(dts), 365)
           IN  IF years = FZero
               THEN [status |-> "return", rate |-> FZero, exc |-> None]
               ELSE LET simple_return ==
                          FSub(FDiv(total_return, FAbs(total_invested)), FInt(1))
                    IN  [status |-> "return",
                         rate   |-> IF FLt(FZero, years)
                                    THEN FDiv(simple_return, years) ELSE FZero,
                         exc    |-> None]

\* The outcomes of calculate_xirr(cash_flows, dates, guess): each records how
\* the root-finding step ended (solver), which path produced the outcome and
\* the rate returned or the exception that left the call.
\* days is the list of day offsets the try block computed (empty when
\* min(dates) raised).
CalculateXirr(cfs, dts, g) ==
  LET days == IF dts = <<>> THEN <<>> ELSE DayOffsets(dts)
  IN
  { IF t.exc = None
    THEN [solver |-> "converged", path |-> "newton", status |-> "return",
          rate |-> t.rate, exc |-> None, days |-> days]
    ELSE IF t.exc \in Absorbed
    THEN LET f == Fallback(cfs, dts)
         IN  [solver |-> t.exc, path |-> "fallback", status |-> f.status,
              rate |-> f.rate, exc |-> f.exc, days |-> days]
    ELSE [solver |-> t.exc, path |-> "newton", status |-> "raise",
          rate |-> NoRate, exc |-> t.exc, days |-> days]
    : t \in TryBlock(cfs, dts, g) }

----------------------------------------------------------------------------
(* PerformanceAnalyzer._get_price_for_date *)

\* stock_dates = [d.date() for d in stock_data.index]             (l.179)
StockDates(sd) == {sd[i].date : i \in DOMAIN sd}

\* for i, stock_datetime in enumerate(stock_data.index):
\*     if stock_datetime.date() == d: return stock_data['Close'].iloc[i]
CloseOfFirstRow(sd, d) ==
  LET i == CHOOSE k \in DOMAIN sd :
             /\ sd[k].date = d
             /\ \A j \in DOMAIN sd : sd[j].date = d => k <= j
  IN  sd[i].close

\* available_dates = [d for d in stock_dates if d <= target_date]  (l.190)
AvailableDates(sd, target) ==
  {d \in StockDates(sd) : d <= target}

SetMax(S) == CHOOSE x \in S : \A y \in S : x >= y
SetMin(S) == CHOOSE x \in S : \A y \in S : x <= y

ClosestDate_Earliest(available_dates) == SetMin(available_dates)

\* closest_date = max(available_dates)                            (l.193)
ClosestDate(available_dates) == SetMax(available_dates)

GetPriceForDate(sd, target) ==
  IF sd = <<>> THEN NoPrice
  ELSE IF target \in StockDates(sd)
  THEN Price(CloseOfFirstRow(sd, target))
  ELSE IF AvailableDates(sd, target) # {}
  THEN Price(CloseOfFirstRow(sd, ClosestDate(AvailableDates(sd, target))))
  ELSE IF StockDates(sd) # {}
  THEN Price(CloseOfFirstRow(sd, SetMin(StockDates(sd))))
  ELSE NoPrice

----------------------------------------------------------------------------
(* PerformanceAnalyzer.generate_thursdays *)

\* datetime.weekday(): Monday is 0, Thursday is 3
Weekday(d) == d % 7

\* while current_thursday <= end_datetime: append; += one week    (l.47-50)
RECURSIVE ThursdayLoop(_, _)
ThursdayLoop(current_thursday, end_datetime) ==
  IF current_thursday <= end_datetime
  THEN <<current_thursday>> \o ThursdayLoop(current_thursday + 7, end_datetime)
  ELSE <<>>

DaysUntilThursday_SkipWeek(current_date) ==
  LET d == (3 - Weekday(current_date)) % 7
  IN  IF d = 0 THEN 7 ELSE d

\* days_until_thursday = (3 - weekday) % 7, made 7 when it is 0 on a day
\* that is not a Thursday (which never happens)                  (l.40-42)
DaysUntilThursday(current_date) ==
  LET d == (3 - Weekday(current_date)) % 7
  IN  IF d = 0 /\ Weekday(current_date) # 3 THEN 7 ELSE d

GenerateThursdays(start, end) ==
  ThursdayLoop(start + DaysUntilThursday(start), end)

----------------------------------------------------------------------------
(* PerformanceAnalyzer.compare_strategies *)

\* strategy2 current_value / strategy1 current_value              (l.226)
\* Python numbers raise ZeroDivisionError on a zero divisor; when either
\* operand is a numpy scalar (as every value computed from a DataFrame's
\* Close column is) the quotient is inf, -inf or nan and nothing is raised.
ValueRatio(s1, s2) ==
  IF s1.current_value # FZero
  THEN [kind |-> "finite", val |-> FDiv(s2.current_value, s1.current_value)]
  ELSE IF ~(s1.numpy \/ s2.numpy)
  THEN [kind |-> "ZeroDivisionError", val |-> FZero]
  ELSE IF FLt(FZero, s2.current_value) THEN [kind |-> "inf", val |-> FZero]
  ELSE IF FLt(s2.current_value, FZero) THEN [kind |-> "-inf", val |-> FZero]
  ELSE [kind |-> "nan", val |-> FZero]

BetterStrategy_TieToSecond(s1, s2) ==
  IF FLt(s2.xirr, s1.xirr) THEN s1.symbol ELSE s2.symbol

\* strategy2 symbol if strategy2 xirr > strategy1 xirr else strategy1 symbol
\*                                                                (l.225)
BetterStrategy(s1, s2) ==
  IF FLt(s1.xirr, s2.xirr) THEN s2.symbol ELSE s1.symbol

CompareStrategies(s1, s2) ==
  LET q == ValueRatio(s1, s2)
  IN  IF q.kind = "ZeroDivisionError"
      THEN [status |-> "raise", exc |-> "ZeroDivisionError"]
      ELSE [status |-> "return", exc |-> None,
            strategy1_symbol |-> s1.symbol,
            strategy2_symbol |-> s2.symbol,
            value_difference |-> FSub(s2.current_value, s1.current_value),
            return_difference_pct |->
              FSub(s2.total_return_pct, s1.total_return_pct),
            xirr_difference |-> FSub(s2.xirr, s1.xirr),
            better_strategy |-> BetterStrategy(s1, s2),
            outperformance_kind |-> q.kind,
            outperformance_pct |->
              IF q.kind = "finite"
              THEN FMul(FSub(q.val, FInt(1)), FInt(100)) ELSE FZero]

----------------------------------------------------------------------------
(* PerformanceAnalyzer.analyze_investment_strategy *)

\* the frame of a call that has not been made
IdleFrame ==
  [pc |-> "idle", i |-> 1, total_shares |-> FZero, total_invested |-> 0,
   investments |-> <<>>, shares_purchased |-> <<>>,
   portfolio_timeline |-> <<>>, xirr_call |-> [called |-> FALSE],
   current_value |-> NoRate, average_cost_per_share |-> NoRate,
   result |-> NoResult, exc |-> None]

\* the frame on entry: investments = [] ... total_invested = 0    (l.67-72)
EntryFrame == [IdleFrame EXCEPT !.pc = "loop"]

LoopBody_CountSkipped(f, sd, inv_date, amount) ==
  LET resolved == GetPriceForDate(sd, inv_date)
      price    == resolved.value
  IN  IF ~resolved.none /\ price > 0
      THEN LET shares_bought  == Frac(amount, price)
               total_shares   == FAdd(f.total_shares, shares_bought)
               total_invested == f.total_invested + amount
           IN  [f EXCEPT
                 !.i = f.i + 1,
                 !.total_shares = total_shares,
                 !.total_invested = total_invested,
                 !.investments = Append(f.investments, amount),
                 !.shares_purchased = Append(f.shares_purchased, shares_bought),
                 !.portfolio_timeline = Append(f.portfolio_timeline,
                    [date |-> inv_date,
                     investment_amount |-> amount,
                     price |-> price,
                     shares_bought |-> shares_bought,
                     total_shares |-> total_shares,
                     cumulative_invested |-> total_invested,
                     portfolio_value |-> FMul(total_shares, FInt(price))])]
      ELSE [f EXCEPT !.i = f.i + 1,
                     !.total_invested = f.total_invested + amount]

LoopBody_FinalPrice(f, sd, inv_date, amount) ==
  LET resolved == GetPriceForDate(sd, inv_date)
      price    == resolved.value
  IN  IF ~resolved.none /\ price > 0
      THEN LET shares_bought  == Frac(amount, price)
               total_shares   == FAdd(f.total_shares, shares_bought)
               total_invested == f.total_invested + amount
           IN  [f EXCEPT
                 !.i = f.i + 1,
                 !.total_shares = total_shares,
                 !.total_invested = total_invested,
                 !.investments = Append(f.investments, amount),
                 !.shares_purchased = Append(f.shares_purchased, shares_bought),
                 !.portfolio_timeline = Append(f.portfolio_timeline,
                    [date |-> inv_date,
                     investment_amount |-> amount,
                     price |-> price,
                     shares_bought |-> shares_bought,
                     total_shares |-> total_shares,
                     cumulative_invested |-> total_invested,
                     portfolio_value |->
                       FMul(total_shares, FInt(sd[Len(sd)].close))])]
      ELSE [f EXCEPT !.i = f.i + 1]

LoopBody_Overwrite(f, sd, inv_date, amount) ==
  LET resolved == GetPriceForDate(sd, inv_date)
      price    == resolved.value
  IN  IF ~resolved.none /\ price > 0
      THEN LET shares_bought  == Frac(amount, price)
               total_shares   == shares_bought
               total_invested == f.total_invested + amount
           IN  [f EXCEPT
                 !.i = f.i + 1,
                 !.total_shares = total_shares,
                 !.total_invested = total_invested,
                 !.investments = Append(f.investments, amount),
                 !.shares_purchased = Append(f.shares_purchased, shares_bought),
                 !.portfolio_timeline = Append(f.portfolio_timeline,
                    [date |-> inv_date,
                     investment_amount |-> amount,
                     price |-> price,
                     shares_bought |-> shares_bought,
                     total_shares |-> total_shares,
                     cumulative_invested |-> total_invested,
                     portfolio_value |-> FMul(total_shares, FInt(price))])]
      ELSE [f EXCEPT !.i = f.i + 1]

\* One iteration of "for inv_date in investment_dates"            (l.75-99)
LoopBody(f, sd, inv_date, amount) ==
  LET resolved == GetPriceForDate(sd, inv_date)
      price    == resolved.value
  IN  IF ~resolved.none /\ price > 0
      THEN LET shares_bought  == Frac(amount, price)
               total_shares   == FAdd(f.total_shares, shares_bought)
               total_invested == f.total_invested + amount
           IN  [f EXCEPT
                 !.i = f.i + 1,
                 !.total_shares = total_shares,
                 !.total_invested = total_invested,
                 !.investments = Append(f.investments, amount),
                 !.shares_purchased = Append(f.shares_purchased, shares_bought),
                 !.portfolio_timeline = Append(f.portfolio_timeline,
                    [date |-> inv_date,
                     investment_amount |-> amount,
                     price |-> price,
                     shares_bought |-> shares_bought,
                     total_shares |-> total_shares,
                     cumulative_invested |-> total_invested,
                     portfolio_value |-> FMul(total_shares, FInt(price))])]
      ELSE [f EXCEPT !.i = f.i + 1]

AnalyzeStep(sym) ==
  /\ an[sym].pc = "loop"
  /\ an[sym].i <= Len(investment_dates)
  /\ an' = [an EXCEPT ![sym] =
              LoopBody(an[sym], stock_data[sym],
                       investment_dates[an[sym].i], investment_amount)]
  /\ UNCHANGED <<stock_data, investment_dates, investment_amount>>
  /\ UNCHANGED <<xirrVars, priceVars, genVars, compareVars, mainVars>>

\* current_price = stock_data['Close'].iloc[-1] if not empty else 0   (l.102)
CurrentPrice(sd) == IF sd # <<>> THEN sd[Len(sd)].close ELSE 0

\* stock_data.index[-1].date() if not stock_data.empty
\*                             else investment_dates[-1]         (l.113, l.135)
FinalDate(sd, inv_dates) ==
  IF sd # <<>> THEN sd[Len(sd)].date ELSE inv_dates[Len(inv_dates)]

\* cash_flows = [-amt for amt in investments] + [current_value]   (l.108-109)
XirrCashFlows(investments, current_value) ==
  [k \in 1 .. Len(investments) |-> FInt(-investments[k])]
    \o <<current_value>>

\* dates = investment_dates.copy() + [final date]                 (l.112-113)
XirrDates(sd, inv_dates) == Append(inv_dates, FinalDate(sd, inv_dates))

\* The XIRR step (l.106-117): the arguments handed to calculate_xirr, if it
\* is called, and one outcome of the call.
XirrStep(f, sd, inv_dates, current_value) ==
  IF Len(f.investments) > 0
  THEN {[called |-> TRUE,
         cash_flows |-> XirrCashFlows(f.investments, current_value),
         dates |-> XirrDates(sd, inv_dates),
         out |-> o]
        : o \in CalculateXirr(XirrCashFlows(f.investments, current_value),
                              XirrDates(sd, inv_dates), <<1, 10>>)}
  ELSE {[called |-> FALSE, cash_flows |-> <<>>, dates |-> <<>>,
         out |-> [solver |-> None, path |-> None, status |-> "return",
                  rate |-> FZero, exc |-> None]]}

\* cash_flows_df: the 'date' column is investment_dates, the 'amount' and
\* 'type' columns have one entry per investment; pandas raises ValueError
\* when the columns differ in length                              (l.127-131)
CashFlowsFrameError(f, inv_dates) == Len(inv_dates) # Len(f.investments)

\* final_row reads investment_dates[-1] when the series is empty: IndexError
\* on an empty list                                               (l.134-138)
FinalRowError(sd, inv_dates) == sd = <<>> /\ inv_dates = <<>>

\* the rows of cash_flows_df after pd.concat                      (l.127-140)
CashFlowsFrame(f, sd, inv_dates, current_value) ==
  [k \in 1 .. Len(f.investments) |->
     [date |-> inv_dates[k], amount |-> FInt(-f.investments[k]),
      type |-> "Investment"]]
    \o <<[date |-> FinalDate(sd, inv_dates), amount |-> current_value,
          type |-> "Current Value"]>>

\* average_cost_per_share = total_invested / total_shares
\*                          if total_shares > 0 else 0            (l.123)
AverageCost(f) ==
  IF FLt(FZero, f.total_shares)
  THEN FDiv(FInt(f.total_invested), f.total_shares) ELSE FZero

\* the dict returned at l.142-156; numpy tells whether current_value is a
\* numpy scalar: it is total_shares * current_price, and current_price is
\* read from the DataFrame unless the series is empty (then it is the int 0)
AnalysisResult(f, sd, inv_dates, symbol, xirr) ==
  LET current_price == CurrentPrice(sd)
      current_value == FMul(f.total_shares, FInt(current_price))
  IN  [symbol |-> symbol,
       total_invested |-> f.total_invested,
       total_shares |-> f.total_shares,
       current_price |-> current_price,
       current_value |-> current_value,
       numpy |-> (sd # <<>>),
       average_cost_per_share |-> AverageCost(f),
       total_return_pct |->
         IF f.total_invested > 0
         THEN FMul(FSub(FDiv(current_value, FInt(f.total_invested)), FInt(1)),
                   FInt(100))
         ELSE FZero,
       xirr |-> xirr,
       investments |-> f.investments,
       shares_purchased |-> f.shares_purchased,
       portfolio_timeline |-> f.portfolio_timeline,
       cash_flows |-> CashFlowsFrame(f, sd, inv_dates, current_value),
       number_of_investments |-> Len(f.investments)]

\* Everything after the loop (l.101-156), for one outcome x of the XIRR step
AfterLoop(f, sd, inv_dates, symbol, x) ==
  LET e == [f EXCEPT !.xirr_call =
              IF x.called
              THEN [called |-> TRUE, cash_flows |-> x.cash_flows,
                    dates |-> x.dates]
              ELSE [called |-> FALSE],
            !.current_value = FMul(f.total_shares, FInt(CurrentPrice(sd)))]
      g == [e EXCEPT !.average_cost_per_share = AverageCost(f)]
  IN  IF x.out.status = "raise"
      THEN [e EXCEPT !.pc = "raised", !.exc = x.out.exc]
      ELSE IF CashFlowsFrameError(f, inv_dates)
      THEN [g EXCEPT !.pc = "raised", !.exc = "ValueError"]
      ELSE IF FinalRowError(sd, inv_dates)
      THEN [g EXCEPT !.pc = "raised", !.exc = "IndexError"]
      ELSE [g EXCEPT !.pc = "returned",
                     !.result = AnalysisResult(f, sd, inv_dates, symbol,
                                               x.out.rate)]

CallerDatesAfter_NoCopy(f, sd, inv_dates) ==
  IF Len(f.investments) > 0 THEN XirrDates(sd, inv_dates) ELSE inv_dates

\* the caller's investment_dates once the call is over: the final date is
\* appended to a copy (dates = investment_dates.copy()), so the caller's list
\* is as it was                                                   (l.112-113)
CallerDatesAfter(f, sd, inv_dates) == inv_dates

AnalyzeFinish(sym) ==
  /\ an[sym].pc = "loop"
  /\ an[sym].i > Len(investment_dates)
  /\ \E x \in XirrStep(an[sym], stock_data[sym], investment_dates,
                        FMul(an[sym].total_shares,
                             FInt(CurrentPrice(stock_data[sym])))) :
       an' = [an EXCEPT ![sym] =
                AfterLoop(an[sym], stock_data[sym], investment_dates, sym, x)]
  /\ investment_dates' =
       CallerDatesAfter(an[sym], stock_data[sym], investment_dates)
  /\ UNCHANGED <<stock_data, investment_amount>>
  /\ UNCHANGED <<xirrVars, priceVars, genVars, compareVars, mainVars>>

----------------------------------------------------------------------------
(* Inputs *)

SeqsUpTo(S, n) == UNION {[1 .. k -> S] : k \in 0 .. n}

Increasing(s) == \A i, j \in DOMAIN s : i < j => s[i] < s[j]

FlowValues == {FInt(-1000), FInt(500), FInt(1100)}
XirrDays   == {(k * 365) \div 2 : k \in 0 .. 2 * MaxYears}
Guesses    == {<<1, 10>>, <<-1, 1>>}

\* closing prices; 0 stands for a close that fails the "price > 0" test
Closes == {0, 50, 100}

\* price series: rows in ascending date order, one row per date
SeriesSet(days, n) ==
  {sd \in SeqsUpTo([date : days, close : Closes], n) :
     \A i, j \in DOMAIN sd : i < j => sd[i].date < sd[j].date}

Schedules(days, n) == {ds \in SeqsUpTo(days, n) : Increasing(ds)}

Amounts == {500, 1000}

StrategyInputs ==
  [symbol : Symbols,
   current_value : {FInt(0), FInt(1000), FInt(1200)},
   numpy : BOOLEAN,
   total_return_pct : {FZero, FInt(20)},
   xirr : {FZero, <<1, 10>>, <<1, 5>>}]

XirrIdle ==
  /\ cash_flows = <<>> /\ dates = <<>> /\ guess = <<1, 10>>
  /\ xirr_out = NoCall
PriceIdle ==
  /\ price_data = <<>> /\ target_date = 0 /\ price_out = NoCall
GenIdle ==
  /\ gen_start = 0 /\ gen_end = 0 /\ thursdays = NoCall
CompareIdle ==
  /\ strategy1_results = NoResult /\ strategy2_results = NoResult
  /\ compare_out = NoCall
AnalyzeIdle ==
  /\ stock_data = [s \in Symbols |-> <<>>]
  /\ investment_dates = <<>>
  /\ investment_amount = 1000
  /\ an = [s \in Symbols |-> IdleFrame]
MainIdle ==
  /\ pc = "direct" /\ start_date = 0 /\ end_date = 0
  /\ market = [s \in Symbols |-> [fails |-> TRUE, history |-> <<>>]]
  /\ events = <<>>
  /\ analysis_complete = FALSE
  /\ analysis_data = NoResult

----------------------------------------------------------------------------
(* Direct calls of the pure methods *)

CallCalculateXirr ==
  /\ xirr_out = NoCall
  /\ \E o \in CalculateXirr(cash_flows, dates, guess) : xirr_out' = o
  /\ UNCHANGED <<cash_flows, dates, guess>>
  /\ UNCHANGED <<priceVars, genVars, compareVars, analyzeVars, mainVars>>

InitXirr ==
  /\ cash_flows \in SeqsUpTo(FlowValues, MaxFlows)
  /\ dates \in SeqsUpTo(XirrDays, MaxFlows)
  /\ guess \in Guesses
  /\ xirr_out = NoCall
  /\ PriceIdle /\ GenIdle /\ CompareIdle /\ AnalyzeIdle /\ MainIdle

NextXirr == CallCalculateXirr
SpecXirr == InitXirr /\ [][NextXirr]_vars

\* calculate_xirr as analyze_investment_strategy calls it: one date per cash
\* flow, the default guess, the pairs in any order
OrderFlows == {FInt(-1000), FInt(1100)}
OrderDays  == {0, 365, 730}

InitOrder ==
  /\ \E n \in 1 .. MaxOrderLen :
       /\ cash_flows \in [1 .. n -> OrderFlows]
       /\ dates \in [1 .. n -> OrderDays]
  /\ guess = <<1, 10>>
  /\ xirr_out = NoCall
  /\ PriceIdle /\ GenIdle /\ CompareIdle /\ AnalyzeIdle /\ MainIdle

NextOrder == CallCalculateXirr
SpecOrder == InitOrder /\ [][NextOrder]_vars

CallGetPriceForDate ==
  /\ price_out = NoCall
  /\ price_out' = [status |-> "return",
                   price |-> GetPriceForDate(price_data, target_date)]
  /\ UNCHANGED <<price_data, target_date>>
  /\ UNCHANGED <<xirrVars, genVars, compareVars, analyzeVars, mainVars>>

InitPrice ==
  /\ price_data \in SeriesSet(0 .. MaxDay, MaxRows)
  /\ target_date \in 0 .. MaxDay
  /\ price_out = NoCall
  /\ XirrIdle /\ GenIdle /\ CompareIdle /\ AnalyzeIdle /\ MainIdle

NextPrice == CallGetPriceForDate
SpecPrice == InitPrice /\ [][NextPrice]_vars

CallGenerateThursdays ==
  /\ thursdays = NoCall
  /\ thursdays' = [status |-> "return",
                   list |-> GenerateThursdays(gen_start, gen_end)]
  /\ UNCHANGED <<gen_start, gen_end>>
  /\ UNCHANGED <<xirrVars, priceVars, compareVars, analyzeVars, mainVars>>

InitGen ==
  /\ gen_start \in 0 .. MaxGenDay
  /\ gen_end \in 0 .. MaxGenDay
  /\ thursdays = NoCall
  /\ XirrIdle /\ PriceIdle /\ CompareIdle /\ AnalyzeIdle /\ MainIdle

NextGen == CallGenerateThursdays
SpecGen == InitGen /\ [][NextGen]_vars

CallCompareStrategies ==
  /\ compare_out = NoCall
  /\ compare_out' = CompareStrategies(strategy1_results, strategy2_results)
  /\ UNCHANGED <<strategy1_results, strategy2_results>>
  /\ UNCHANGED <<xirrVars, priceVars, genVars, analyzeVars, mainVars>>

InitCompare ==
  /\ strategy1_results \in StrategyInputs
  /\ strategy2_results \in StrategyInputs
  /\ compare_out = NoCall
  /\ XirrIdle /\ PriceIdle /\ GenIdle /\ AnalyzeIdle /\ MainIdle

NextCompare == CallCompareStrategies
SpecCompare == InitCompare /\ [][NextCompare]_vars

----------------------------------------------------------------------------
(* A direct call of analyze_investment_strategy *)

InitAnalyze ==
  /\ \E sym \in Symbols, sd \in SeriesSet(0 .. MaxDay, MaxRows) :
       /\ stock_data = [s \in Symbols |-> IF s = sym THEN sd ELSE <<>>]
       /\ an = [s \in Symbols |-> IF s = sym THEN EntryFrame ELSE IdleFrame]
  /\ investment_dates \in Schedules(0 .. MaxDay, MaxDates)
  /\ investment_amount \in Amounts
  /\ XirrIdle /\ PriceIdle /\ GenIdle /\ CompareIdle /\ MainIdle

NextAnalyze ==
  \/ \E sym \in Symbols : AnalyzeStep(sym)
  \/ \E sym \in Symbols : AnalyzeFinish(sym)

SpecAnalyze == InitAnalyze /\ [][NextAnalyze]_vars

----------------------------------------------------------------------------
(* The two analyses of one run, each over its own series, sharing the list *)
(* of investment dates and taking their steps in any order                 *)

\* the series of a run: fetched histories, every close a positive price
BothSeries ==
  {sd \in SeriesSet(0 .. MaxBothDay, MaxBothLen) :
     \A i \in DOMAIN sd : sd[i].close > 0}

InitBoth ==
  /\ stock_data \in [Symbols -> BothSeries]
  /\ investment_dates \in Schedules(0 .. MaxBothDay, MaxBothLen)
  /\ investment_amount = 1000
  /\ an = [s \in Symbols |-> EntryFrame]
  /\ XirrIdle /\ PriceIdle /\ GenIdle /\ CompareIdle /\ MainIdle

NextBoth ==
  \/ \E sym \in Symbols : AnalyzeStep(sym)
  \/ \E sym \in Symbols : AnalyzeFinish(sym)

SpecBoth == InitBoth /\ [][NextBoth]_vars

----------------------------------------------------------------------------
(* DataFetcher.fetch_stock_data, as far as the run depends on it *)

RECURSIVE SortedSeq(_)
SortedSeq(S) ==
  IF S = {} THEN <<>> ELSE <<SetMin(S)>> \o SortedSeq(S \ {SetMin(S)})

\* the provider quotes on Monday .. Friday
TradingDays == {d \in 0 .. MaxMainDay : Weekday(d) < 5}

\* the rows of a history, given the close of each day it quotes
HistoryOf(closes) ==
  LET ds == SortedSeq(DOMAIN closes)
  IN  [k \in DOMAIN ds |-> [date |-> ds[k], close |-> closes[ds[k]]]]

\* the histories the provider may hold for a symbol: a flat one, a rising one,
\* one with no quote on Thursdays, one with a zero close on Thursdays
Histories ==
  { HistoryOf([d \in TradingDays |-> 100]),
    HistoryOf([d \in TradingDays |-> IF d < 4 THEN 50 ELSE 100]),
    HistoryOf([d \in {e \in TradingDays : Weekday(e) # 3} |-> 100]),
    HistoryOf([d \in TradingDays |-> IF Weekday(d) = 3 THEN 0 ELSE 100]) }

MarketAnswers ==
  {[fails |-> TRUE, history |-> <<>>]}
    \cup {[fails |-> FALSE, history |-> h] : h \in Histories}

\* data[data.index.date >= start_date][data.index.date <= end_date]; an empty
\* DataFrame when the provider has nothing or the request fails  (l.26-62)
FetchStockData(answer, start, end) ==
  IF answer.fails THEN <<>>
  ELSE SelectSeq(answer.history, LAMBDA row : start <= row.date /\ row.date <= end)

----------------------------------------------------------------------------
(* acwi_spy.py: the block run when "Run Analysis" is pressed (l.67-113) *)

Others == <<xirrVars, priceVars, genVars, compareVars>>

InvalidRange_Strict(start, end) == start > end

\* the range test that guards the run                              (l.68)
InvalidRange(start, end) == start >= end

\* if analyze_button: if start_date >= end_date: st.error(...)    (l.67-70)
RunAnalysis ==
  /\ pc = "idle"
  /\ IF InvalidRange(start_date, end_date)
     THEN /\ events' = Append(events, "error: start date must be before end date")
          /\ pc' = "done"
     ELSE /\ events' = events
          /\ pc' = "fetch_ACWI"
  /\ UNCHANGED <<start_date, end_date, market, analysis_complete, analysis_data>>
  /\ UNCHANGED <<analyzeVars, Others>>

\* acwi_data = fetch_stock_data('ACWI', ...); spy_data = ...      (l.79-80)
Fetch(sym, next) ==
  /\ pc = "fetch_" \o sym
  /\ stock_data' = [stock_data EXCEPT ![sym] =
                      FetchStockData(market[sym], start_date, end_date)]
  /\ events' = Append(events, "fetch " \o sym)
  /\ pc' = next
  /\ UNCHANGED <<start_date, end_date, market, analysis_complete, analysis_data>>
  /\ UNCHANGED <<investment_dates, investment_amount, an, Others>>

FetchAcwi == Fetch("ACWI", "fetch_SPY")
FetchSpy  == Fetch("SPY", "check")

\* if acwi_data.empty or spy_data.empty: st.error(...)            (l.82-84)
CheckData ==
  /\ pc = "check"
  /\ IF stock_data["ACWI"] = <<>> \/ stock_data["SPY"] = <<>>
     THEN /\ events' = Append(events, "error: unable to fetch stock data")
          /\ pc' = "done"
     ELSE /\ events' = events
          /\ pc' = "schedule"
  /\ UNCHANGED <<start_date, end_date, market, analysis_complete, analysis_data>>
  /\ UNCHANGED <<analyzeVars, Others>>

\* investment_dates = generate_thursdays(start_date, end_date)    (l.86)
Schedule ==
  /\ pc = "schedule"
  /\ investment_dates' = GenerateThursdays(start_date, end_date)
  /\ events' = Append(events, "generate")
  /\ pc' = "call_ACWI"
  /\ UNCHANGED <<start_date, end_date, market, analysis_complete, analysis_data>>
  /\ UNCHANGED <<stock_data, investment_amount, an, Others>>

\* entering analyze_investment_strategy(data, investment_dates, amount, sym)
\*                                                                (l.89, l.94)
CallAnalyze(sym) ==
  /\ pc = "call_" \o sym
  /\ an' = [an EXCEPT ![sym] = EntryFrame]
  /\ events' = Append(events, "analyze " \o sym)
  /\ pc' = "in_" \o sym
  /\ UNCHANGED <<start_date, end_date, market, analysis_complete, analysis_data>>
  /\ UNCHANGED <<stock_data, investment_dates, investment_amount, Others>>

\* the call returns and the block goes on
ReturnAnalyze(sym, next) ==
  /\ pc = "in_" \o sym
  /\ an[sym].pc = "returned"
  /\ pc' = next
  /\ UNCHANGED <<start_date, end_date, market, events, analysis_complete,
                 analysis_data>>
  /\ UNCHANGED <<analyzeVars, Others>>

ReturnAcwi == ReturnAnalyze("ACWI", "call_SPY")
ReturnSpy  == ReturnAnalyze("SPY", "store")

\* except Exception as e: st.error(...); analysis_complete = False (l.111-113)
ExceptAnalyze(sym) ==
  /\ pc = "in_" \o sym
  /\ an[sym].pc = "raised"
  /\ events' = Append(events, "error: " \o an[sym].exc)
  /\ analysis_complete' = FALSE
  /\ pc' = "done"
  /\ UNCHANGED <<start_date, end_date, market, analysis_data>>
  /\ UNCHANGED <<analyzeVars, Others>>

\* st.session_state.analysis_data = {...}; analysis_complete = True (l.99-109)
Store ==
  /\ pc = "store"
  /\ analysis_data' =
       [acwi_analysis |-> an["ACWI"].result,
        spy_analysis |-> an["SPY"].result,
        acwi_data |-> stock_data["ACWI"],
        spy_data |-> stock_data["SPY"],
        investment_dates |-> investment_dates,
        investment_amount |-> investment_amount,
        start_date |-> start_date,
        end_date |-> end_date]
  /\ analysis_complete' = TRUE
  /\ events' = Append(events, "store")
  /\ pc' = "done"
  /\ UNCHANGED <<start_date, end_date, market>>
  /\ UNCHANGED <<analyzeVars, Others>>

InitMain ==
  /\ pc = "idle"
  /\ start_date \in 0 .. MaxMainDay
  /\ end_date \in 0 .. MaxMainDay
  /\ market \in [Symbols -> MarketAnswers]
  /\ events = <<>>
  /\ analysis_complete = FALSE
  /\ analysis_data = NoResult
  /\ stock_data = [s \in Symbols |-> <<>>]
  /\ investment_dates = <<>>
  /\ investment_amount \in Amounts
  /\ an = [s \in Symbols |-> IdleFrame]
  /\ XirrIdle /\ PriceIdle /\ GenIdle /\ CompareIdle

NextMain ==
  \/ RunAnalysis
  \/ FetchAcwi
  \/ FetchSpy
  \/ CheckData
  \/ Schedule
  \/ \E sym \in Symbols : CallAnalyze(sym)
  \/ \E sym \in Symbols : AnalyzeStep(sym)
  \/ \E sym \in Symbols : AnalyzeFinish(sym)
  \/ ReturnAcwi
  \/ ReturnSpy
  \/ \E sym \in Symbols : ExceptAnalyze(sym)
  \/ Store

SpecMain == InitMain /\ [][NextMain]_vars

----------------------------------------------------------------------------
(* Properties *)

\* C1: calculate_xirr never propagates an error to its caller: however the
\* root-finding step ends, the call returns a rate.
C1_NoErrorPropagates ==
  xirr_out # NoCall => xirr_out.status = "return"

\* totalInvested and totalReturn of a list of whole amounts, summed directly
RECURSIVE C2_SumOf(_, _)
C2_SumOf(cfs, sign) ==
  IF cfs = <<>> THEN 0
  ELSE (IF sign * Head(cfs)[1] > 0 THEN sign * Head(cfs)[1] ELSE 0)
         + C2_SumOf(Tail(cfs), sign)

\* C2: on the fallback path the returned rate is 0 if totalInvested = 0, 0 if
\* the dates span zero days, and otherwise (totalReturn/totalInvested - 1)
\* divided by years = span / 365.
C2_FallbackRate ==
  (xirr_out.status = "return" /\ xirr_out.path = "fallback") =>
    LET totalInvested == C2_SumOf(cash_flows, -1)
        totalReturn   == C2_SumOf(cash_flows, 1)
    IN  IF totalInvested = 0 THEN xirr_out.rate = <<0, 1>>
        ELSE LET span == SeqMax(dates) - SeqMin(dates)
             IN  IF span = 0 THEN xirr_out.rate = <<0, 1>>
                 ELSE xirr_out.rate =
                        Frac((totalReturn - totalInvested) * 365,
                             totalInvested * span)

\* a fallback over two years: -1000 then +1100 gives (1.1 - 1) / 2 = 1/20
C2_Witness ==
  /\ xirr_out.status = "return" /\ xirr_out.path = "fallback"
  /\ cash_flows = <<FInt(-1000), FInt(1100)>>
  /\ dates = <<0, 730>>
  /\ xirr_out.rate = <<1, 20>>

\* C3: the series handed to calculate_xirr holds one flow of -amount per
\* successful investment, paired with the date of that investment, and one
\* terminal flow of current_value paired with the last date of the series.
C3_CashFlowsPairedWithOwnDates ==
  \A sym \in Symbols :
    an[sym].xirr_call.called =>
      LET cfs  == an[sym].xirr_call.cash_flows
          dts  == an[sym].xirr_call.dates
          snap == an[sym].portfolio_timeline
          sd   == stock_data[sym]
          n    == Len(snap)
      IN  /\ Len(cfs) = n + 1
          /\ Len(dts) = n + 1
          /\ \A k \in 1 .. n :
               /\ cfs[k] = <<-investment_amount, 1>>
               /\ dts[k] = snap[k].date
          /\ cfs[n + 1] = FMul(an[sym].total_shares, FInt(sd[Len(sd)].close))
          /\ dts[n + 1] = sd[Len(sd)].date

\* C4: over an empty price series the call returns a zero-shares result.
C4_EmptySeriesZeroResult ==
  \A sym \in Symbols :
    (stock_data[sym] = <<>> /\ an[sym].pc \in {"returned", "raised"}) =>
      /\ an[sym].pc = "returned"
      /\ an[sym].result.total_shares = <<0, 1>>
      /\ an[sym].result.total_invested = 0
      /\ an[sym].result.current_value = <<0, 1>>
      /\ an[sym].result.average_cost_per_share = <<0, 1>>
      /\ an[sym].result.xirr = <<0, 1>>

\* the date the loop of sym is about to process resolves to no usable price
C5_NextDateUnusable(sym) ==
  /\ an[sym].pc = "loop"
  /\ an[sym].i <= Len(investment_dates)
  /\ stock_data[sym] # <<>>
  /\ LET r == GetPriceForDate(stock_data[sym], investment_dates[an[sym].i])
     IN  r.none \/ r.value <= 0

\* a finished call over a non-empty series in which some date was skipped
C5_FinishedWithSkip(sym) ==
  /\ an[sym].pc \in {"returned", "raised"}
  /\ stock_data[sym] # <<>>
  /\ Len(an[sym].portfolio_timeline) < Len(investment_dates)

\* C5: over a non-empty series a date whose price is missing or <= 0 is
\* skipped without error: it adds no snapshot and leaves total_shares and
\* total_invested as they were, the loop goes on to the remaining dates, and
\* the call still returns a result.
C5_SkipWithoutError ==
  /\ [][\A sym \in Symbols :
          (C5_NextDateUnusable(sym) /\ an'[sym] # an[sym]) =>
            /\ an'[sym].pc = "loop"
            /\ an'[sym].i = an[sym].i + 1
            /\ an'[sym].portfolio_timeline = an[sym].portfolio_timeline
            /\ an'[sym].total_shares = an[sym].total_shares
            /\ an'[sym].total_invested = an[sym].total_invested]_vars
  /\ [](\A sym \in Symbols :
          C5_FinishedWithSkip(sym) => an[sym].pc = "returned")

\* C6: on a series with unique ascending dates _get_price_for_date returns the
\* close of the target date if the series has it, else the close of the
\* latest earlier date, else the close of the earliest date; it returns None
\* exactly when the series is empty.
C6_PriceResolution ==
  price_out.status = "return" =>
    LET sd == price_data
        p  == price_out.price
        Rows == DOMAIN sd
    IN  /\ p.none <=> sd = <<>>
        /\ \A k \in Rows :
             /\ sd[k].date = target_date => p.value = sd[k].close
             /\ ( /\ sd[k].date < target_date
                  /\ \A j \in Rows : sd[j].date <= target_date
                                        => sd[j].date <= sd[k].date )
                  => p.value = sd[k].close
        /\ (sd # <<>> /\ \A j \in Rows : sd[j].date > target_date)
             => p.value = sd[1].close

\* two earlier rows with different closes: the later one is used
C6_Witness ==
  /\ price_out.status = "return"
  /\ Len(price_data) = 2
  /\ price_data[2].date < target_date
  /\ price_data[1].close # price_data[2].close
  /\ price_out.price = [none |-> FALSE, value |-> price_data[2].close]

\* C7: generate_thursdays(start, end) returns exactly the Thursdays d with
\* start <= d <= end, in increasing order and 7 days apart, the first within
\* [start, start + 6]; the list is empty when no Thursday lies in the range.
C7_ThursdaysExact ==
  thursdays.status = "return" =>
    LET L == thursdays.list
    IN  /\ \A i \in DOMAIN L :
             /\ L[i] % 7 = 3
             /\ gen_start <= L[i] /\ L[i] <= gen_end
        /\ \A i \in 1 .. Len(L) - 1 : L[i + 1] = L[i] + 7
        /\ \A d \in gen_start .. gen_end :
             d % 7 = 3 => \E i \in DOMAIN L : L[i] = d
        /\ L # <<>> => L[1] <= gen_start + 6
        /\ (gen_start % 7 = 3 /\ gen_start <= gen_end) => L[1] = gen_start

\* a range that starts on a Thursday and holds three of them
C7_Witness ==
  /\ thursdays.status = "return"
  /\ gen_start = 3
  /\ thursdays.list = <<3, 10, 17>>

\* C8: a run requested with start date >= end date reports the invalid range
\* and does nothing else: no fetch, no schedule, no analysis.
C8_InvalidRangeStopsRun ==
  start_date >= end_date =>
    /\ events \in {<<>>, <<"error: start date must be before end date">>}
    /\ pc \in {"idle", "done"}
    /\ pc = "done" => events # <<>>
    /\ stock_data = [s \in Symbols |-> <<>>]
    /\ investment_dates = <<>>
    /\ \A sym \in Symbols : an[sym].pc = "idle"
    /\ ~analysis_complete

\* a run over a one-day range has ended with the range error
C8_Witness ==
  /\ start_date = end_date
  /\ pc = "done"
  /\ events = <<"error: start date must be before end date">>

\* C9: compare_strategies returns outperformance_pct = (valueB/valueA - 1) x
\* 100 when A's current value is non-zero and fails, returning no record,
\* when A's current value is 0.
C9_OutperformanceOrError ==
  compare_out # NoCall =>
    LET a == strategy1_results.current_value
        b == strategy2_results.current_value
    IN  IF a[1] = 0
        THEN compare_out.status = "raise"
        ELSE /\ compare_out.status = "return"
             /\ compare_out.outperformance_kind = "finite"
             /\ compare_out.outperformance_pct =
                  Frac((b[1] * a[2] - a[1] * b[2]) * 100, a[1] * b[2])

\* C10: compare_strategies names B as better_strategy exactly when B's XIRR
\* is strictly greater than A's; otherwise, ties included, it names A.
C10_BetterStrategy ==
  compare_out.status = "return" =>
    LET xa == strategy1_results.xirr
        xb == strategy2_results.xirr
    IN  compare_out.better_strategy =
          IF xb[1] * xa[2] > xa[1] * xb[2]
          THEN strategy2_results.symbol ELSE strategy1_results.symbol

\* a tie between two different symbols goes to the first
C10_Witness ==
  /\ compare_out.status = "return"
  /\ strategy1_results.xirr = strategy2_results.xirr
  /\ strategy1_results.symbol = "ACWI"
  /\ strategy2_results.symbol = "SPY"
  /\ compare_out.better_strategy = "ACWI"

\* no cash flows at all, or cash flows of one sign only
C11_Degenerate(cfs) ==
  \/ cfs = <<>>
  \/ \A i \in DOMAIN cfs : cfs[i][1] < 0
  \/ \A i \in DOMAIN cfs : cfs[i][1] > 0

\* C11: given zero cash flows, or cash flows of one sign, calculate_xirr takes
\* the fallback path: it does not raise and returns the fallback estimate (0
\* with no negative flow or a zero-day span, else (totalReturn/totalInvested
\* - 1) / years).
C11_DegenerateTakesFallback ==
  (xirr_out # NoCall /\ C11_Degenerate(cash_flows)) =>
    /\ xirr_out.status = "return"
    /\ xirr_out.path = "fallback"
    /\ LET totalInvested == C2_SumOf(cash_flows, -1)
           totalReturn   == C2_SumOf(cash_flows, 1)
       IN  IF totalInvested = 0 \/ SeqMax(dates) = SeqMin(dates)
           THEN xirr_out.rate = <<0, 1>>
           ELSE xirr_out.rate =
                  Frac((totalReturn - totalInvested) * 365,
                       totalInvested * (SeqMax(dates) - SeqMin(dates)))

\* the usable prices of the first k investment dates, in schedule order
RECURSIVE C12_Prices(_, _, _)
C12_Prices(sd, inv_dates, k) ==
  IF k = 0 THEN <<>>
  ELSE LET r == GetPriceForDate(sd, inv_dates[k])
       IN  C12_Prices(sd, inv_dates, k - 1)
             \o (IF ~r.none /\ r.value > 0 THEN <<r.value>> ELSE <<>>)

\* amount/p_1 + ... + amount/p_n as a fraction <<numerator, denominator>>
RECURSIVE C12_Shares(_, _)
C12_Shares(amount, prices) ==
  IF prices = <<>> THEN <<0, 1>>
  ELSE LET rest == C12_Shares(amount, Tail(prices))
       IN  Frac(amount * rest[2] + rest[1] * Head(prices),
                Head(prices) * rest[2])

\* C12: once the loop has processed the schedule, with n dates successful at
\* prices p_1 .. p_n, total_invested = n x amount, total_shares = sum of
\* amount / p_i, and the average cost computed from them is total_invested /
\* total_shares (0 if no shares were bought), which is p when every p_i = p.
C12_TotalsAndAverageCost ==
  \A sym \in Symbols :
    an[sym].average_cost_per_share # NoRate =>
      LET prices == C12_Prices(stock_data[sym], investment_dates,
                               Len(investment_dates))
          n      == Len(prices)
          shares == C12_Shares(investment_amount, prices)
          avg    == an[sym].average_cost_per_share
      IN  /\ an[sym].total_invested = n * investment_amount
          /\ an[sym].total_shares = shares
          /\ IF n = 0 THEN avg = <<0, 1>>
             ELSE avg[1] * shares[1] = n * investment_amount * shares[2] * avg[2]
          /\ \A p \in Closes :
               (n > 0 /\ \A k \in 1 .. n : prices[k] = p) => avg = <<p, 1>>

\* 4 dates of 1000 at price 100: 40 shares, 4000 invested, average cost 100
C12_Witness ==
  \E sym \in Symbols :
    /\ an[sym].pc = "returned"
    /\ investment_amount = 1000
    /\ Len(investment_dates) = 4
    /\ an[sym].result.total_shares = <<40, 1>>
    /\ an[sym].result.total_invested = 4000
    /\ an[sym].result.average_cost_per_share = <<100, 1>>

\* the frame of a call run on its own once its loop is over
RECURSIVE C13_LoopAlone(_, _, _, _)
C13_LoopAlone(f, sd, inv_dates, amount) ==
  IF f.i > Len(inv_dates) THEN f
  ELSE C13_LoopAlone(LoopBody(f, sd, inv_dates[f.i], amount),
                     sd, inv_dates, amount)

\* the frames a call run on its own can end in
C13_AloneOutcomes(sym) ==
  LET sd == stock_data[sym]
      f  == C13_LoopAlone(EntryFrame, sd, investment_dates, investment_amount)
  IN  {AfterLoop(f, sd, investment_dates, sym, x) :
         x \in XirrStep(f, sd, investment_dates,
                        FMul(f.total_shares, FInt(CurrentPrice(sd))))}

\* C13: the two analyses of a run are independent: a step of one changes
\* neither the shared list of investment dates, nor any price series, nor the
\* other's frame and result; so in any order or interleaving each ends as it
\* would when run alone.
C13_AnalysesIndependent ==
  /\ [][\A sym \in Symbols :
          an'[sym] # an[sym] =>
            /\ investment_dates' = investment_dates
            /\ stock_data' = stock_data
            /\ \A other \in Symbols \ {sym} : an'[other] = an[other]]_vars
  /\ [](\A sym \in Symbols :
          an[sym].pc \in {"returned", "raised"} =>
            an[sym] \in C13_AloneOutcomes(sym))

\* both analyses are in the middle of their loops, each with one purchase
\* made, over different series
C13_Witness ==
  /\ Len(investment_dates) = 2
  /\ stock_data["ACWI"] # stock_data["SPY"]
  /\ \A sym \in Symbols :
       /\ an[sym].pc = "loop"
       /\ an[sym].i = 2
       /\ Len(an[sym].portfolio_timeline) = 1

\* the prices resolved for the dates of the first k snapshots
C14_SnapshotPrices(sd, snaps, k) ==
  [j \in 1 .. k |-> GetPriceForDate(sd, snaps[j].date).value]

\* C14: every snapshot records portfolio_value = (shares held after that
\* purchase) x (the price resolved for the snapshot's own date); the series'
\* last close enters only current_value = total_shares x last close.
C14_SnapshotValuedAtOwnPrice ==
  \A sym \in Symbols :
    LET sd    == stock_data[sym]
        snaps == an[sym].portfolio_timeline
    IN  /\ \A k \in DOMAIN snaps :
             LET prices == C14_SnapshotPrices(sd, snaps, k)
                 held   == C12_Shares(investment_amount, prices)
             IN  snaps[k].portfolio_value =
                   Frac(held[1] * prices[k], held[2])
        /\ an[sym].pc = "returned" =>
             LET all == C12_Shares(investment_amount,
                                   C14_SnapshotPrices(sd, snaps, Len(snaps)))
             IN  an[sym].result.current_value =
                   Frac(all[1] * sd[Len(sd)].close, all[2])

\* a returned analysis whose first snapshot was bought at 50 while the series
\* ends at 100: the snapshot is worth 1000, not the 2000 the last close gives
C14_Witness ==
  \E sym \in Symbols :
    /\ an[sym].pc = "returned"
    /\ investment_amount = 1000
    /\ Len(an[sym].portfolio_timeline) = 2
    /\ an[sym].portfolio_timeline[1].price = 50
    /\ an[sym].portfolio_timeline[1].portfolio_value = <<1000, 1>>
    /\ an[sym].result.current_price = 100
    /\ an[sym].result.current_value = <<3000, 1>>

\* a list rearranged by a permutation of its indices
C15_Permuted(s, perm) == [i \in DOMAIN s |-> s[perm[i]]]

\* C15: whatever the order of the lists, the time origin of calculate_xirr is
\* the earliest date: every day offset is >= 0, the earliest date has offset
\* 0, and permuting the (cash flow, date) pairs together leaves each pair
\* its day offset, hence the net present value at any rate is unchanged.
C15_EarliestDateIsOrigin ==
  (xirr_out # NoCall /\ dates # <<>>) =>
    LET days  == xirr_out.days
        whole == \A i \in DOMAIN dates : days[i] % 365 = 0
        npv0  == [r \in Rates |-> Npv(cash_flows, days, r)]
    IN  /\ DOMAIN days = DOMAIN dates
        /\ \A i \in DOMAIN dates :
             /\ days[i] >= 0
             /\ (\A j \in DOMAIN dates : dates[i] <= dates[j]) => days[i] = 0
             /\ \A j \in DOMAIN dates : days[i] - days[j] = dates[i] - dates[j]
        /\ Len(cash_flows) = Len(dates) =>
             \A perm \in Permutations(DOMAIN dates) :
               LET pcfs  == C15_Permuted(cash_flows, perm)
                   pdays == DayOffsets(C15_Permuted(dates, perm))
               IN  /\ \A i \in DOMAIN dates : pdays[i] = days[perm[i]]
                   /\ whole => \A r \in Rates : Npv(pcfs, pdays, r) = npv0[r]

\* two purchases and a valuation dated between them, latest date first
C15_Witness ==
  /\ xirr_out # NoCall
  /\ cash_flows = <<FInt(-1000), FInt(-1000), FInt(1100)>>
  /\ dates = <<730, 0, 365>>
  /\ xirr_out.days = <<730, 0, 365>>

\* the dates among the first k of the schedule that resolve to a price > 0
RECURSIVE C16_SuccessfulDates(_, _, _)
C16_SuccessfulDates(sd, inv_dates, k) ==
  IF k = 0 THEN <<>>
  ELSE LET r == GetPriceForDate(sd, inv_dates[k])
       IN  C16_SuccessfulDates(sd, inv_dates, k - 1)
             \o (IF ~r.none /\ r.value > 0 THEN <<inv_dates[k]>> ELSE <<>>)

\* C16: with a positive amount, total_shares and total_invested never
\* decrease from one processed date to the next; after every step
\* total_invested = amount x (snapshots emitted so far), and the snapshots
\* are those of the successful dates processed so far, in schedule order,
\* none of them altered once emitted.
C16_TotalsMonotone ==
  /\ [][\A sym \in Symbols :
          /\ an'[sym].total_invested >= an[sym].total_invested
          /\ an'[sym].total_shares[1] * an[sym].total_shares[2]
               >= an[sym].total_shares[1] * an'[sym].total_shares[2]
          /\ Len(an'[sym].portfolio_timeline) >= Len(an[sym].portfolio_timeline)
          /\ \A k \in DOMAIN an[sym].portfolio_timeline :
               an'[sym].portfolio_timeline[k] = an[sym].portfolio_timeline[k]
      ]_vars
  /\ [](\A sym \in Symbols :
          (an[sym].pc # "idle" /\ investment_amount > 0) =>
            LET snaps == an[sym].portfolio_timeline
                done  == C16_SuccessfulDates(stock_data[sym], investment_dates,
                                             an[sym].i - 1)
            IN  /\ an[sym].total_invested = investment_amount * Len(snaps)
                /\ Len(snaps) = Len(done)
                /\ \A k \in DOMAIN snaps :
                     /\ snaps[k].date = done[k]
                     /\ snaps[k].cumulative_invested = investment_amount * k)

\* three dates processed, the second skipped: two snapshots, 2000 invested
C16_Witness ==
  \E sym \in Symbols :
    /\ an[sym].pc = "loop"
    /\ an[sym].i = 4
    /\ investment_amount = 1000
    /\ Len(an[sym].portfolio_timeline) = 2
    /\ an[sym].portfolio_timeline[2].date = investment_dates[3]
    /\ an[sym].total_invested = 2000

====
